---------------------------- MODULE Spec2Model ----------------------------
(**************************************************************************************)
(* Model of the caption / timeline rendering engine of generate-captions.             *)
(*                                                                                    *)
(*   build_rashifal_video.py : get_timestamps, detect_boundaries, get_font,           *)
(*                             build_video                                            *)
(*   caption_video.py        : transcribe, get_font, add_captions, add_effects        *)
(*   generate_video.py       : generate_scenes, build_video                           *)
(*   rashifal_app.py         : the four steps of the rashifal dashboard               *)
(*   app.py                  : convert_words, the transcription cache and the         *)
(*                             handlers of the caption dashboard                      *)
(*   transcribe.py           : transcribe_with_word_timestamps, to_hinglish           *)
(*                                                                                    *)
(* Times are integers in milliseconds (the recognizer's timestamps are                *)
(* rounded to 3 decimals, build_rashifal_video.py:82-83), except in the               *)
(* transcription entry points, where they are fractions of a second.                  *)
(*                                                                                    *)
(* Eight specifications share the definitions:                                        *)
(*   Spec         one build_video call on any token list                              *)
(*   SpecEncode   the frame requests of one encode call (add_captions,                *)
(*                add_effects, build_video of either module)                          *)
(*   SpecHandler  the "Build Videos" handler: build_video for part 1, then            *)
(*                for part 2, then the success message                                *)
(*   SpecFont     one get_font call on any text and set of font files                 *)
(*   SpecListen   one transcription call: the recognizer's callback thread            *)
(*                and the polling loop                                                *)
(*   SpecConvert  one convert_words / to_hinglish call, batch by batch                *)
(*   SpecCache    uploads, "Transcribe", "Save Edits" and "Burn Captions"             *)
(*                clicks and new sessions over one captions.db                        *)
(*   SpecRashifal date selections and the clicks of the four steps of the             *)
(*                rashifal dashboard over one rashifal.db                             *)
(**************************************************************************************)
EXTENDS Integers, Sequences, FiniteSets, TLC

VARIABLES
    pc,            \* position of the call: "idle" | "encoding" | "converting" | "polling"
                   \* | "stopping" | "done"
    call,          \* the call running: "none" | "add_captions" | "add_effects" | "build_video"
                   \* | "convert_words" | "caption_video.to_hinglish" | "transcribe.to_hinglish"
    handler,       \* "Build Videos" handler: "off" | "part1" | "part2" | "success" | "error"
    names,         \* build_video: the requested canonical names
    words,         \* token list handed to the render call
    total_dur,     \* build_video: total_dur argument (ms)
    clip,          \* the opened source clip: [fps, duration] (duration in ms)
    boundaries,    \* build_video: the Segment Boundary Map
    segments,      \* build_video: list handed to concatenate_videoclips
    audio_clip,    \* build_video: <<start, end>> of the trimmed audio, or <<>>
    final,         \* the clip handed to write_videofile: [fps, duration]
    out_file,      \* what is at the output path: "absent" | "complete" | "partial"
    out1,          \* handler: what is at OUT1 once the part 1 call has ended
    result,        \* how the call ended: "none" | "returned" | "raised"
    console,       \* diagnostics printed so far
    progress_callback, \* add_captions / add_effects: whether a callback was supplied
    total_frames,  \* add_captions / add_effects: the progress denominator
    frame_count,   \* add_captions / add_effects: frame_count[0]
    reports,       \* values handed to progress_callback, in order
    emitted,       \* add_captions / add_effects: frames returned by make_frame so far
    frame,         \* the frame make_frame returned last
    open_clips,    \* clip handles the render call has opened
    closed,        \* clip handles the render call has closed
    mode,          \* convert_words: the mode argument
    gpt_results,   \* conversion: the "words" list of each GPT response, in call order
    converted,     \* conversion: converted / hinglish_all, the words collected so far
    returned,      \* conversion: the list the call returned
    files,         \* app.py: the files of tmpdir, path -> bytes
    video_path,    \* app.py: st.session_state["video_path"], or "none"
    filename,      \* app.py: st.session_state["filename"], or "none"
    db,            \* app.py: table transcriptions of captions.db, file_hash -> row
    all_words,     \* app.py: st.session_state["all_words"], or <<>>
    file_hash,     \* app.py: st.session_state["file_hash"], or <<>>
    api_calls,     \* app.py: calls made so far to extract_audio, transcribe, convert_words
    message,       \* app.py: the st.success message of the last script run, or "none"
    edits,         \* app.py: number of "Save Edits" clicks so far
    saved_bytes,   \* history: the file contents save_cache was called for
    scenes,        \* generate_video.py: the scenes handed to build_video
    font_query,    \* get_font: the call made, [fn, text, installed], or <<>>
    font,          \* get_font: what the call gave, [kind, path], or <<>>
    events,        \* transcription: the events the recognizer has yet to deliver
    delivered,     \* transcription: the events its callback thread has delivered
    done,          \* transcription: the flag on_stopped sets and the loop polls
    callback_errors, \* transcription: the exceptions raised inside callbacks
    transcript,    \* transcription: the list the entry point returned, or <<>>
    date_str,      \* rashifal_app.py: the date selected in the sidebar
    session_state, \* rashifal_app.py: st.session_state, [text, dur, words, loaded_date]
    sessions,      \* rashifal.db: table sessions, date -> [text, dur]
    timestamps,    \* rashifal.db: table timestamps, date -> words
    wav,           \* the audio the files WAV1 and WAV2 hold
    generated,     \* the number of texts generated so far
    last_build     \* what the last run of Build Videos was handed

vars == <<pc, call, handler, names, words, total_dur, clip, boundaries, segments,
          audio_clip, final, out_file, out1, result, console, progress_callback,
          total_frames, frame_count, reports, emitted, frame, open_clips, closed,
          mode, gpt_results, converted, returned,
          files, video_path, filename, db, all_words, file_hash, api_calls, message,
          edits, saved_bytes, scenes, font_query, font,
          events, delivered, done, callback_errors, transcript,
          date_str, session_state, sessions, timestamps, wav, generated, last_build>>

buildVars == <<names, words, total_dur, clip, boundaries, segments, audio_clip, final>>
frameVars == <<progress_callback, total_frames, frame_count, reports, emitted, frame>>
clipVars == <<open_clips, closed>>
convVars == <<mode, gpt_results, converted, returned>>
cacheVars == <<files, video_path, filename, db, all_words, file_hash, api_calls, message,
               edits, saved_bytes>>
sceneVars == <<scenes>>
fontVars == <<font_query, font>>
otherVars == <<handler, names, total_dur, clip, boundaries, segments, audio_clip, final,
               out_file, out1, console>>
listenVars == <<events, delivered, done, callback_errors, transcript>>
rashifalVars == <<date_str, session_state, sessions, timestamps, wav, generated, last_build>>
extraVars == <<sceneVars, fontVars, listenVars, rashifalVars>>
sceneOthers == <<fontVars, listenVars, rashifalVars>>
fontOthers == <<sceneVars, listenVars, rashifalVars>>
listenOthers == <<sceneVars, fontVars, rashifalVars>>
rashifalOthers == <<sceneVars, fontVars, listenVars>>
appVars == <<convVars, cacheVars, extraVars>>

-----------------------------------------------------------------------------
(* Bounds of the model *)

\* longest token list handed to one build_video call (Spec)
MaxWords == 3
\* longest token list of an encode call whose frames are requested (SpecEncode)
MaxCaptionWords == 2
\* longest token list of a build_video call made by the handler (SpecHandler)
MaxHandlerWords == 1
\* frame requests followed in one add_captions / add_effects call
MaxRequests == 6

\* token intervals <<start, end>> the inputs are drawn from: short words, and a long
\* one that overlaps the next word
TokenSpans == { <<1000, 1200>>, <<1000, 3500>>, <<3000, 3200>>, <<5000, 5200>> }
TotalDurs == {5000, 10000}
ClipDurations == {1500, 4000}

\* PART1_NAMES (build_rashifal_video.py:16), shortened to three names, transliterated
PART1_NAMES == <<"Mesh", "Leo", "Kanya">>
\* PART2_NAMES (build_rashifal_video.py:17), likewise
PART2_NAMES == <<"Tula", "Dhanu", "Meen">>

\* recognizer outputs: two canonical spellings, one alias of Leo, one other word
TokenTexts == {"Mesh", "leo", "Kanya", "aaj"}
\* words of a captioned video
CaptionTexts == {",kal.", "aaj"}

TokensOf(texts) == { [word |-> w, start |-> sp[1], end |-> sp[2]] :
                       w \in texts, sp \in TokenSpans }

SeqsUpTo(S, n) == UNION { [1..k -> S] : k \in 0..n }

TokenLists == SeqsUpTo(TokensOf(TokenTexts), MaxWords)
SegmentTokenLists == SeqsUpTo(TokensOf(TokenTexts), MaxCaptionWords)
HandlerTokenLists == SeqsUpTo(TokensOf({"Mesh", "leo", "Tula", "aaj"}), MaxHandlerWords)
CaptionTokenLists == SeqsUpTo(TokensOf(CaptionTexts), MaxCaptionWords)

\* batch_size of convert_words (app.py:107) and to_hinglish (caption_video.py:85),
\* 50 in the source, scaled down so that a list spans more than one batch
batch_size == 2
\* longest token list handed to a conversion call (SpecConvert)
MaxConvWords == 3
\* recognizer tokens handed to a conversion
DevanagariTokens ==
    { w \in TokensOf({"aaj", "kal"}) : w.end - w.start = 200 /\ w.start < 5000 }
ConvTokenLists == SeqsUpTo(DevanagariTokens, MaxConvWords)
\* what the GPT response may hold under "words": its first n words, for any n up to
\* one more than a full batch
GptWords == <<"g1", "g2", "g3", "g4", "g5", "g6">>
GptResults == { SubSeq(GptWords, 1, n) : n \in 0..(batch_size + 1) }

\* "Save Edits" clicks followed in one run of the dashboard (SpecCache)
MaxEdits == 1
\* uploads of the dashboard: file names and file contents
FileNames == {"a.mp4", "b.mp4"}
FileBytes == {"bytes1", "bytes2"}
\* what transcribe returns for an upload, and what the data editor hands back
HindiLists == { <<>>, <<[word |-> "aaj", start |-> 1000, end |-> 1200]>> }
EditedLists == { <<[word |-> "edited", start |-> 1000, end |-> 1500]>> }
\* GPT responses to the one-word requests of the dashboard: too short, or one word
CacheGptResults == { <<>>, <<"g1">> }

\* source videos of add_captions / add_effects: fps, duration (ms), frame width and
\* height (pixels)
SourceClips == { [fps |-> 1, duration |-> 400,  w |-> 1,   h |-> 1],
                 [fps |-> 2, duration |-> 2500, w |-> 27,  h |-> 13],
                 [fps |-> 1, duration |-> 4700, w |-> 100, h |-> 50] }

\* caption texts handed to get_font, as code points: "aaj", the same in Devanagari,
\* a Latin letter followed by a danda (U+0964), a Bengali letter (U+0985, just past
\* the Devanagari block), the empty text
FontTexts == { <<97, 97, 106>>, <<2310, 2332>>, <<76, 2404>>, <<2437>>, <<>> }
\* the font files get_font looks for
FontFiles == { "fonts/ITFDevanagari.ttc", "system/ITFDevanagari.ttc",
               "fonts/Arial-Bold.ttf", "system/Arial Bold.ttf" }

\* the dates of the rashifal dashboard, and the most texts generated in one run
Dates == {"2026-03-01", "2026-03-02"}
MaxTexts == 3

\* the most recognized events of one recognition session
MaxEvents == 2

\* the entries of a "Words" list: the text, the offset and the duration in ticks
WordItems == { [Word |-> "aaj", Offset |-> 10000000, Duration |-> 5000000],
               [Word |-> "kal", Offset |-> 12346000, Duration |-> 2500000] }

\* a JSON object without keys
EmptyDict == <<>>

\* the detailed results of a recognized event, after json.loads: without "NBest",
\* with an empty "NBest", with a first entry without "Words", with "Words"
DetailedResults ==
    { EmptyDict, "NBest" :> <<>>, "NBest" :> <<EmptyDict>> }
        \cup { "NBest" :> <<"Words" :> ws>> : ws \in SeqsUpTo(WordItems, 1) }
        \cup { "NBest" :> <<"Words" :> ws, EmptyDict>> : ws \in [1..2 -> WordItems] }

\* the events of the recognized signal
RecognizedEvents ==
    { [type |-> "recognized", reason |-> "NoMatch", json |-> EmptyDict] }
        \cup { [type |-> "recognized", reason |-> "RecognizedSpeech", json |-> j] :
                  j \in DetailedResults }

\* how a session ends: canceled, session_stopped, or one after the other
StopEvents ==
    LET stop(t) == [type |-> t, reason |-> "none", json |-> EmptyDict]
    IN  { <<stop("canceled")>>, <<stop("session_stopped")>>,
          <<stop("canceled"), stop("session_stopped")>> }

\* the events of one session, in the order the recognizer delivers them
EventScripts ==
    { recs \o stops : recs \in SeqsUpTo(RecognizedEvents, MaxEvents), stops \in StopEvents }

\* audio lengths (ms) of the scene videos of generate_video.py
SceneDurations == {3000, 4000}

\* times (ms) at which the encode loop asks for a frame
FrameTimes == {0, 200, 1000, 1200, 2000, 3000, 4000}

Range(s) == { s[i] : i \in DOMAIN s }

NoFrame == [kind |-> "none"]
NoClip == [fps |-> 0, duration |-> 0]

-----------------------------------------------------------------------------
(* build_rashifal_video.py: detect_boundaries *)

BOUNDARY_MAP ==
    [ k \in {"Mesh", "Vrishabh", "Mithun", "Kark", "Kanya", "Tula", "Vrishchik",
             "Dhanu", "Makar", "Kumbh", "Meen", "liyo", "lio_dev", "lio", "leo", "Leo"} |->
        IF k \in {"liyo", "lio_dev", "lio", "leo", "Leo"} THEN "Leo" ELSE k ]

\* BOUNDARY_MAP.get(w["word"], w["word"])
Resolve(word) == IF word \in DOMAIN BOUNDARY_MAP THEN BOUNDARY_MAP[word] ELSE word

\* a scan in which a later occurrence overwrites the boundary
RECURSIVE ScanWordsLastWins(_, _, _, _)
ScanWordsLastWins(ns, ws, i, b) ==
    IF i > Len(ws) THEN b
    ELSE LET key == Resolve(ws[i].word)
         IN  ScanWordsLastWins(ns, ws, i + 1,
                 IF key \in Range(ns) THEN (key :> ws[i].start) @@ b ELSE b)

\* a scan that records every word, requested or not
RECURSIVE ScanWordsAnyName(_, _, _, _)
ScanWordsAnyName(ns, ws, i, b) ==
    IF i > Len(ws) THEN b
    ELSE LET key == Resolve(ws[i].word)
         IN  ScanWordsAnyName(ns, ws, i + 1,
                 IF key \notin DOMAIN b THEN (key :> ws[i].start) @@ b ELSE b)

\* the loop of detect_boundaries from token i on, b the dict built so far
RECURSIVE ScanWords(_, _, _, _)
ScanWords(ns, ws, i, b) ==
    IF i > Len(ws) THEN b
    ELSE LET key == Resolve(ws[i].word)
         IN  ScanWords(ns, ws, i + 1,
                 IF key \in Range(ns) /\ key \notin DOMAIN b
                 THEN (key :> ws[i].start) @@ b
                 ELSE b)

detect_boundaries(ns, ws, td) ==
    ("_end" :> td - 100) @@ ScanWords(ns, ws, 1, <<>>)

-----------------------------------------------------------------------------
(* build_rashifal_video.py: build_video *)

\* int(x / y) of Python: truncation toward zero (y > 0)
TruncDiv(x, y) == IF x >= 0 THEN x \div y ELSE -((-x) \div y)

\* every segment runs to the terminal entry
next_name_terminal(ns, j, b) == "_end"

\* round(n / d) for n >= 0, d > 0: to the nearest integer, a half to the even one
RoundDiv(n, d) ==
    LET q == n \div d
        r == n % d
    IN  IF 2 * r < d THEN q
        ELSE IF 2 * r > d THEN q + 1
        ELSE IF q % 2 = 0 THEN q ELSE q + 1

\* next((n for n in names[j:] if n in boundaries), "_end"), j counted from 1
RECURSIVE next_name(_, _, _)
next_name(ns, j, b) ==
    IF j > Len(ns) THEN "_end"
    ELSE IF ns[j] \in DOMAIN b THEN ns[j]
    ELSE next_name(ns, j + 1, b)

\* attachment by whole interval, not by start
seg_words_within(ws, seg_start, seg_end) ==
    SelectSeq(ws, LAMBDA w : seg_start <= w.start /\ w.end < seg_end)

\* [w for w in words if seg_start <= w["start"] < seg_end]
seg_words(ws, seg_start, seg_end) ==
    SelectSeq(ws, LAMBDA w : seg_start <= w.start /\ w.start < seg_end)

\* a repeat count without the margin
reps_no_margin(seg_dur, cd) == TruncDiv(seg_dur, cd)

\* reps = int(seg_dur / clip.duration) + 2
reps(seg_dur, cd) == TruncDiv(seg_dur, cd) + 2

\* concatenate_videoclips([clip] * reps).subclipped(0, seg_dur): the length of the
\* trimmed loop (a negative end time counts from the end of the loop)
subclipped(length, end_time) ==
    IF end_time < 0 THEN length + end_time ELSE end_time

\* one iteration of the loop of build_video for names[idx], a resolved name
Segment(ns, idx, b, ws, cd) ==
    LET seg_start == b[ns[idx]]
        seg_end   == b[next_name(ns, idx + 1, b)]
        seg_dur   == seg_end - seg_start
        n         == reps(seg_dur, cd)
    IN  [ name      |-> ns[idx],
          seg_start |-> seg_start,
          seg_end   |-> seg_end,
          seg_words |-> seg_words(ws, seg_start, seg_end),
          reps      |-> n,
          clip_dur  |-> cd,
          looped    |-> subclipped(n * cd, seg_dur),
          duration  |-> seg_dur ]

\* the loop of build_video from names[idx] on: the segments appended, in order
RECURSIVE LoopNames(_, _, _, _, _)
LoopNames(ns, idx, b, ws, cd) ==
    IF idx > Len(ns) THEN <<>>
    ELSE IF ns[idx] \notin DOMAIN b
         THEN LoopNames(ns, idx + 1, b, ws, cd)
         ELSE <<Segment(ns, idx, b, ws, cd)>> \o LoopNames(ns, idx + 1, b, ws, cd)

\* s with x inserted before the first element that starts later
RECURSIVE InsertByStart(_, _)
InsertByStart(s, x) ==
    IF s = <<>> THEN <<x>>
    ELSE IF x.seg_start < Head(s).seg_start THEN <<x>> \o s
    ELSE <<Head(s)>> \o InsertByStart(Tail(s), x)

RECURSIVE SortByStart(_)
SortByStart(s) ==
    IF s = <<>> THEN <<>> ELSE InsertByStart(SortByStart(Tail(s)), Head(s))

\* segments appended in the order the names were detected
BuildSegmentsByDetection(ns, b, ws, cd) == SortByStart(LoopNames(ns, 1, b, ws, cd))

\* only the segments of positive duration are appended
BuildSegmentsPositive(ns, b, ws, cd) ==
    SelectSeq(LoopNames(ns, 1, b, ws, cd), LAMBDA sg : sg.duration > 0)

\* segments after "for idx, name in enumerate(names)"
BuildSegments(ns, b, ws, cd) == LoopNames(ns, 1, b, ws, cd)

\* the duration of concatenate_videoclips(segments)
RECURSIVE SumDurations(_)
SumDurations(segs) ==
    IF segs = <<>> THEN 0 ELSE Head(segs).duration + SumDurations(Tail(segs))

\* the audio from its beginning to the terminal entry
AudioSpanFromZero(ns, b) == <<0, b["_end"]>>

\* first_name = next(n for n in names if n in boundaries);
\* AudioFileClip(wav_path).subclipped(boundaries[first_name], boundaries["_end"])
AudioSpan(ns, b) == <<b[next_name(ns, 1, b)], b["_end"]>>

\* open_clips after the loop: per segment the source clip and the looped clip
OpenClipsOf(segs) ==
    UNION { { <<segs[k].name, "clip">>, <<segs[k].name, "looped">> } : k \in DOMAIN segs }

\* build_video up to the encode: boundaries, diagnostics, segments, abort or audio
BuildVideoOn(ns, ws, td, cd) ==
    LET b    == detect_boundaries(ns, ws, td)
        segs == BuildSegments(ns, b, ws, cd)
        missing == { n \in Range(ns) : n \notin DOMAIN b }
        warn == IF missing # {} THEN {"WARNING - missing"} ELSE {}
    IN  /\ call' = "build_video"
        /\ names' = ns
        /\ words' = ws
        /\ total_dur' = td
        /\ clip' = [fps |-> 0, duration |-> cd]    \* the fps of the source clips is not read
        /\ boundaries' = b
        /\ segments' = segs
        /\ IF segs = <<>>
           THEN /\ console' = console \cup warn
                                 \cup {"ERROR: no segments detected, aborting."}
                /\ pc' = "done"
                /\ result' = "returned"
                /\ audio_clip' = <<>>
                /\ final' = NoClip
           ELSE /\ console' = console \cup warn
                /\ pc' = "encoding"
                /\ result' = "none"
                /\ audio_clip' = AudioSpan(ns, b)
                /\ final' = [fps |-> 30, duration |-> SumDurations(segs)]
        /\ open_clips' = OpenClipsOf(segs)
        /\ closed' = {}
        /\ UNCHANGED <<out_file, out1, handler>>
        /\ UNCHANGED frameVars
        /\ UNCHANGED appVars

\* build_video(names, words, wav_path, total_dur, out_path) on any input
BuildVideo ==
    /\ pc = "idle"
    /\ \E ws \in TokenLists, td \in TotalDurs, cd \in ClipDurations :
          BuildVideoOn(PART1_NAMES, ws, td, cd)

\* build_video where VideoFileClip(RASHI_VIDEO[name]) raises for the k-th resolved
\* name: the loop has opened the clips of the k - 1 segments before it, the exception
\* leaves build_video, nothing is closed and nothing is written
BuildVideoOpenRaises ==
    /\ pc = "idle"
    /\ \E ws \in SegmentTokenLists, td \in TotalDurs, cd \in ClipDurations :
          LET b    == detect_boundaries(PART1_NAMES, ws, td)
              segs == BuildSegments(PART1_NAMES, b, ws, cd)
              missing == { n \in Range(PART1_NAMES) : n \notin DOMAIN b }
          IN  \E k \in DOMAIN segs :
                /\ call' = "build_video"
                /\ names' = PART1_NAMES
                /\ words' = ws
                /\ total_dur' = td
                /\ clip' = [fps |-> 0, duration |-> cd]
                /\ boundaries' = b
                /\ segments' = SubSeq(segs, 1, k - 1)
                /\ open_clips' = OpenClipsOf(SubSeq(segs, 1, k - 1))
                /\ closed' = {}
                /\ console' = console \cup (IF missing # {} THEN {"WARNING - missing"} ELSE {})
                /\ audio_clip' = <<>>
                /\ final' = NoClip
                /\ result' = "raised"
                /\ pc' = "done"
    /\ UNCHANGED <<out_file, out1, handler>>
    /\ UNCHANGED frameVars
    /\ UNCHANGED appVars

\* write_videofile(...) runs to the end: the file is written, the call returns;
\* build_video then closes every handle of open_clips, add_captions and add_effects
\* close nothing
WriteVideo ==
    /\ pc = "encoding"
    /\ out_file' = "complete"
    /\ console' = console \cup {"saved"}
    /\ result' = "returned"
    /\ pc' = "done"
    /\ closed' = IF call = "build_video" THEN open_clips ELSE closed
    /\ UNCHANGED <<call, handler, out1, open_clips>>
    /\ UNCHANGED buildVars
    /\ UNCHANGED frameVars
    /\ UNCHANGED appVars

\* write_videofile(...) raises part-way (codec error): the render call does not catch it
WriteVideoRaises ==
    /\ pc = "encoding"
    /\ out_file' = "partial"
    /\ result' = "raised"
    /\ pc' = "done"
    /\ UNCHANGED <<call, handler, out1, console>>
    /\ UNCHANGED buildVars
    /\ UNCHANGED frameVars
    /\ UNCHANGED clipVars
    /\ UNCHANGED appVars

-----------------------------------------------------------------------------
(* caption_video.py: add_captions, add_effects; the frame generators *)

SEGMENT_DURATION == 2000

\* the characters of the words of the model
Spelling ==
    ("aaj" :> <<"a", "a", "j">>) @@ (",kal." :> <<",", "k", "a", "l", ".">>) @@
    ("Mesh" :> <<"M", "e", "s", "h">>) @@ ("leo" :> <<"l", "e", "o">>) @@
    ("Kanya" :> <<"K", "a", "n", "y", "a">>)

\* the characters of the argument of strip: '.', ',' and the danda
STRIP_CHARS == {".", ",", "danda"}

\* str.lstrip(chars) and str.rstrip(chars)
RECURSIVE lstrip(_, _)
lstrip(cs, chars) ==
    IF cs # <<>> /\ Head(cs) \in chars THEN lstrip(Tail(cs), chars) ELSE cs

RECURSIVE rstrip(_, _)
rstrip(cs, chars) ==
    IF cs # <<>> /\ cs[Len(cs)] \in chars
    THEN rstrip(SubSeq(cs, 1, Len(cs) - 1), chars)
    ELSE cs

\* str.strip(chars): leading and trailing characters of chars removed
strip(cs, chars) == rstrip(lstrip(cs, chars), chars)

\* str.upper() on the letters of the model; other characters stay
UpperCase ==
    ("a" :> "A") @@ ("e" :> "E") @@ ("h" :> "H") @@ ("j" :> "J") @@ ("k" :> "K") @@
    ("l" :> "L") @@ ("n" :> "N") @@ ("o" :> "O") @@ ("s" :> "S") @@ ("y" :> "Y")
upper(cs) == [ i \in DOMAIN cs |-> IF cs[i] \in DOMAIN UpperCase THEN UpperCase[cs[i]] ELSE cs[i] ]

\* text = current["word"].strip(".,<danda>").upper() of add_captions.make_frame and
\* of the make_frame of generate_video.build_video
caption_text(word) == upper(strip(Spelling[word], STRIP_CHARS))

\* a lookup that keeps the last containing token
RECURSIVE FirstMatchLastWins(_, _, _)
FirstMatchLastWins(ws, i, t) ==
    IF i > Len(ws) THEN <<>>
    ELSE LET later == FirstMatchLastWins(ws, i + 1, t)
         IN  IF later # <<>> THEN later
             ELSE IF ws[i].start <= t /\ t < ws[i].end THEN <<ws[i]>> ELSE <<>>

\* next((w for w in ws[i:] if w["start"] <= t < w["end"]), None): <<>> is None
RECURSIVE FirstMatch(_, _, _)
FirstMatch(ws, i, t) ==
    IF i > Len(ws) THEN <<>>
    ELSE IF ws[i].start <= t /\ t < ws[i].end THEN <<ws[i]>>
    ELSE FirstMatch(ws, i + 1, t)

\* a frame generator that draws the bar although no token is active
make_frame_always_bar(ws, t) ==
    LET current == FirstMatch(ws, 1, t)
    IN  [ kind    |-> "caption",
          t       |-> t,
          source  |-> t,
          current |-> current,
          drawn   |-> IF current # <<>>
                      THEN <<[text |-> current[1].word, strip_upper |-> TRUE,
                              burned |-> caption_text(current[1].word)]>>
                      ELSE <<[text |-> "", strip_upper |-> TRUE, burned |-> <<>>]>> ]

\* add_captions.make_frame(t) without its counter: clip.get_frame(t), the active
\* token, and what draw_caption burns in (<<>>: the decoded frame is returned as is)
make_frame(ws, t) ==
    LET current == FirstMatch(ws, 1, t)
    IN  [ kind    |-> "caption",
          t       |-> t,
          source  |-> t,
          current |-> current,
          drawn   |-> IF current # <<>>
                      THEN <<[text |-> current[1].word, strip_upper |-> TRUE,
                              burned |-> caption_text(current[1].word)]>>
                      ELSE <<>> ]

\* build_video.make_frame(t, sw, off, lp): lp.get_frame(t) of the looped clip, the
\* active token of the segment's words at t + off, the caption drawn
segment_make_frame(seg, t) ==
    LET cur == FirstMatch(seg.seg_words, 1, t + seg.seg_start)
    IN  [ kind    |-> "segment",
          name    |-> seg.name,
          t       |-> t,
          source  |-> IF seg.clip_dur > 0 THEN t % seg.clip_dur ELSE t,
          current |-> cur,
          drawn   |-> IF cur # <<>>
                      THEN <<[text |-> cur[1].word, strip_upper |-> FALSE,
                              burned |-> Spelling[cur[1].word]]>>
                      ELSE <<>> ]

\* a zoom that grows with t without wrapping at the segment length
zoom_scale_unwrapped(t) ==
    [ num |-> 100 * SEGMENT_DURATION + 8 * t, den |-> 100 * SEGMENT_DURATION ]

\* a zoom that starts with a zoom-out segment
zoom_scale_odd_in(t) ==
    [ num |-> 100 * SEGMENT_DURATION
                + 8 * (IF TruncDiv(t, SEGMENT_DURATION) % 2 = 1
                       THEN t % SEGMENT_DURATION
                       ELSE SEGMENT_DURATION - (t % SEGMENT_DURATION)),
      den |-> 100 * SEGMENT_DURATION ]

\* a zoom that never alternates
zoom_scale_always_in(t) ==
    [ num |-> 100 * SEGMENT_DURATION + 8 * (t % SEGMENT_DURATION),
      den |-> 100 * SEGMENT_DURATION ]

\* scale = 1.0 + 0.08 * (progress if zoom_in else (1 - progress)), as the fraction
\* num / den with den = 100 * SEGMENT_DURATION
zoom_scale(t) ==
    LET segment_idx == TruncDiv(t, SEGMENT_DURATION)
        t_in_seg    == t % SEGMENT_DURATION
        zoom_in     == segment_idx % 2 = 0
    IN  [ num |-> 100 * SEGMENT_DURATION
                    + 8 * (IF zoom_in THEN t_in_seg ELSE SEGMENT_DURATION - t_in_seg),
          den |-> 100 * SEGMENT_DURATION ]

\* crop_w = int(W / scale); left = (W - crop_w) // 2 (likewise crop_h, top);
\* img.crop((left, top, left + crop_w, top + crop_h))
crop_box(W, H, scale) ==
    LET crop_w == TruncDiv(W * scale.den, scale.num)
        crop_h == TruncDiv(H * scale.den, scale.num)
    IN  [ crop_w |-> crop_w,
          crop_h |-> crop_h,
          left   |-> (W - crop_w) \div 2,
          top    |-> (H - crop_h) \div 2 ]

\* add_effects.make_frame(t) without its counter: the decoded frame, the scale, the
\* crop rectangle, the size the crop is resized to
effects_make_frame(W, H, t) ==
    [ kind   |-> "effect",
      t      |-> t,
      source |-> t,
      scale  |-> zoom_scale(t),
      crop   |-> crop_box(W, H, zoom_scale(t)),
      size   |-> <<W, H>> ]

\* total_frames = max(int(clip.fps * clip.duration), 1)
TotalFrames(c) ==
    LET n == TruncDiv(c.fps * c.duration, 1000) IN IF n > 1 THEN n ELSE 1

\* a progress value without the clamp
progress_unclamped(fc, tf) == [num |-> fc, den |-> tf]

\* min(frame_count[0] / total_frames, 1.0), as the fraction num / den
progress_value(fc, tf) ==
    IF fc < tf THEN [num |-> fc, den |-> tf] ELSE [num |-> 1, den |-> 1]

\* the part of add_captions / add_effects before the encode: open the clip, set the
\* counters, build the VideoClip of the clip's duration
OpenClip(name, ws, c, cb) ==
    /\ call' = name
    /\ words' = ws
    /\ UNCHANGED names
    /\ clip' = c
    /\ final' = [fps |-> c.fps, duration |-> c.duration]
    /\ progress_callback' = cb
    /\ total_frames' = TotalFrames(c)
    /\ frame_count' = 0
    /\ reports' = <<>>
    /\ emitted' = 0
    /\ frame' = NoFrame
    /\ pc' = "encoding"
    /\ open_clips' = {<<name, "clip">>}
    /\ closed' = {}
    /\ UNCHANGED <<handler, total_dur, boundaries, segments, audio_clip, out_file,
                   out1, result, console>>
    /\ UNCHANGED appVars

\* add_captions(video_file, words, output_file, progress_callback)
AddCaptions ==
    /\ pc = "idle"
    /\ \E ws \in CaptionTokenLists, c \in SourceClips, cb \in BOOLEAN :
          OpenClip("add_captions", ws, c, cb)

\* add_effects(video_file, output_file, progress_callback)
AddEffects ==
    /\ pc = "idle"
    /\ \E c \in SourceClips, cb \in BOOLEAN : OpenClip("add_effects", <<>>, c, cb)

\* a closure that reports before it counts
CountFrameReportFirst ==
    /\ frame_count' = frame_count + 1
    /\ reports' = IF progress_callback
                  THEN Append(reports, progress_value(frame_count, total_frames))
                  ELSE reports
    /\ emitted' = emitted + 1

\* the counter and the callback at the head of both make_frame closures
CountFrame ==
    /\ frame_count' = frame_count + 1
    /\ reports' = IF progress_callback
                  THEN Append(reports, progress_value(frame_count + 1, total_frames))
                  ELSE reports
    /\ emitted' = emitted + 1

\* the encode loop asks add_captions.make_frame for the frame at t
CaptionMakeFrame ==
    /\ pc = "encoding" /\ call = "add_captions"
    /\ frame_count < MaxRequests
    /\ \E t \in FrameTimes :
          /\ t = 0 \/ t < clip.duration
          /\ frame' = make_frame(words, t)
    /\ CountFrame
    /\ UNCHANGED <<pc, call, handler, out_file, out1, result, console,
                   progress_callback, total_frames>>
    /\ UNCHANGED buildVars
    /\ UNCHANGED clipVars
    /\ UNCHANGED appVars

\* the encode loop asks add_effects.make_frame for the frame at t
EffectMakeFrame ==
    /\ pc = "encoding" /\ call = "add_effects"
    /\ frame_count < MaxRequests
    /\ \E t \in FrameTimes :
          /\ t = 0 \/ t < clip.duration
          /\ frame' = effects_make_frame(clip.w, clip.h, t)
    /\ CountFrame
    /\ UNCHANGED <<pc, call, handler, out_file, out1, result, console,
                   progress_callback, total_frames>>
    /\ UNCHANGED buildVars
    /\ UNCHANGED clipVars
    /\ UNCHANGED appVars

\* the encode loop asks the make_frame of one segment of build_video for the frame at t
SegmentMakeFrame ==
    /\ pc = "encoding" /\ call = "build_video"
    /\ \E k \in DOMAIN segments, t \in FrameTimes :
          /\ t = 0 \/ t < segments[k].duration
          /\ frame' = segment_make_frame(segments[k], t)
    /\ UNCHANGED <<pc, call, handler, out_file, out1, result, console,
                   progress_callback, total_frames, frame_count, reports, emitted>>
    /\ UNCHANGED buildVars
    /\ UNCHANGED clipVars
    /\ UNCHANGED appVars

\* generate_scenes(words, audio_duration, interval = 2.0): one scene per interval,
\* the last one cut at the audio's end
generate_scenes(audio_duration) ==
    LET interval == 2000
        n_scenes == (audio_duration + interval - 1) \div interval
    IN  [ i \in 1..n_scenes |->
            [ start |-> (i - 1) * interval,
              end   |-> IF i * interval < audio_duration THEN i * interval
                        ELSE audio_duration ] ]

\* scene_words of generate_video.build_video: the tokens that overlap the scene
scene_words(ws, scene) ==
    SelectSeq(ws, LAMBDA w : w.start < scene.end /\ w.end > scene.start)

\* the make_frame of one scene of generate_video.build_video
scene_make_frame(scene, sw, t) ==
    LET abs_t   == scene.start + t
        current == FirstMatch(sw, 1, abs_t)
    IN  [ kind    |-> "scene",
          t       |-> t,
          source  |-> scene.start,
          current |-> current,
          drawn   |-> IF current # <<>>
                      THEN <<[text |-> current[1].word, strip_upper |-> TRUE,
                              burned |-> caption_text(current[1].word)]>>
                      ELSE <<>> ]

\* generate_video.build_video(scenes, words, ...) up to the encode: the audio is
\* opened, one clip per scene, concatenated
SceneBuildVideo ==
    /\ pc = "idle"
    /\ \E ws \in CaptionTokenLists, d \in SceneDurations :
          /\ words' = ws
          /\ scenes' = generate_scenes(d)
          /\ final' = [fps |-> 24, duration |-> d]
    /\ call' = "generate_video.build_video"
    /\ pc' = "encoding"
    /\ open_clips' = {<<"generate_video.build_video", "audio">>}
    /\ closed' = {}
    /\ UNCHANGED <<handler, names, total_dur, clip, boundaries, segments, audio_clip,
                   out_file, out1, result, console>>
    /\ UNCHANGED frameVars
    /\ UNCHANGED <<convVars, cacheVars>>
    /\ UNCHANGED sceneOthers

\* the encode loop asks the make_frame of one scene for the frame at t
SceneMakeFrame ==
    /\ pc = "encoding" /\ call = "generate_video.build_video"
    /\ \E k \in DOMAIN scenes, t \in FrameTimes :
          /\ t = 0 \/ t < scenes[k].end - scenes[k].start
          /\ frame' = scene_make_frame(scenes[k], scene_words(words, scenes[k]), t)
    /\ UNCHANGED <<pc, call, handler, out_file, out1, result, console,
                   progress_callback, total_frames, frame_count, reports, emitted>>
    /\ UNCHANGED buildVars
    /\ UNCHANGED clipVars
    /\ UNCHANGED appVars

\* build_video on the token lists whose frames are followed
BuildVideoFrames ==
    /\ pc = "idle"
    /\ \E ws \in SegmentTokenLists, td \in TotalDurs, cd \in ClipDurations :
          BuildVideoOn(PART1_NAMES, ws, td, cd)

-----------------------------------------------------------------------------
(* rashifal_app.py: the "Build Videos" handler *)

\* build_video_fn(PART1_NAMES, words1, ...) or build_video_fn(PART2_NAMES, words2, ...)
HandlerBuildVideo ==
    /\ handler \in {"part1", "part2"}
    /\ pc = "idle"
    /\ \E ws \in HandlerTokenLists, td \in TotalDurs, cd \in ClipDurations :
          BuildVideoOn(IF handler = "part1" THEN PART1_NAMES ELSE PART2_NAMES, ws, td, cd)

\* the build_video call has ended: an exception goes to st.error, a return goes on to
\* the next call, and after the second call to st.success("Videos built!")
HandlerReturn ==
    /\ handler \in {"part1", "part2"}
    /\ pc = "done"
    /\ IF result = "raised"
       THEN /\ handler' = "error"
            /\ console' = console \cup {"Video build failed"}
            /\ UNCHANGED <<pc, result, out_file, out1>>
       ELSE IF handler = "part1"
       THEN /\ handler' = "part2"
            /\ out1' = out_file
            /\ out_file' = "absent"
            /\ pc' = "idle"
            /\ result' = "none"
            /\ UNCHANGED console
       ELSE /\ handler' = "success"
            /\ console' = console \cup {"Videos built!"}
            /\ UNCHANGED <<pc, result, out_file, out1>>
    /\ UNCHANGED <<call>>
    /\ UNCHANGED buildVars
    /\ UNCHANGED frameVars
    /\ UNCHANGED clipVars
    /\ UNCHANGED appVars

-----------------------------------------------------------------------------
(* build_rashifal_video.py, caption_video.py: get_font *)

FontCalls == {"build_rashifal_video.get_font", "caption_video.get_font"}

\* any('\u0900' <= ch <= '\u097F' for ch in text)
is_devanagari(text) == \E i \in DOMAIN text : 2304 <= text[i] /\ text[i] <= 2431

\* the paths get_font tries for Devanagari text, in order
DevanagariCandidates(fn) ==
    IF fn = "build_rashifal_video.get_font"
    THEN <<"fonts/ITFDevanagari.ttc", "system/ITFDevanagari.ttc">>
    ELSE <<"system/ITFDevanagari.ttc">>

\* the paths get_font tries for other text, in order
LatinCandidates(fn) ==
    IF fn = "build_rashifal_video.get_font"
    THEN <<"fonts/Arial-Bold.ttf", "system/Arial Bold.ttf">>
    ELSE <<"system/Arial Bold.ttf">>

\* the first path of the list that exists, <<>> when none does
FirstInstalled(paths, installed) ==
    LET found == SelectSeq(paths, LAMBDA q : q \in installed)
    IN  IF found = <<>> THEN <<>> ELSE <<Head(found)>>

\* get_font(text, size). build_rashifal_video: the Devanagari paths for Devanagari
\* text, then the Latin paths for any text, then ImageFont.load_default().
\* caption_video: ImageFont.truetype on the one path of the script, which raises
\* when the file is missing
get_font(fn, text, installed) ==
    IF fn = "build_rashifal_video.get_font"
    THEN LET dev == IF is_devanagari(text)
                    THEN FirstInstalled(DevanagariCandidates(fn), installed) ELSE <<>>
             lat == FirstInstalled(LatinCandidates(fn), installed)
         IN  IF dev # <<>> THEN [kind |-> "truetype", path |-> dev[1]]
             ELSE IF lat # <<>> THEN [kind |-> "truetype", path |-> lat[1]]
             ELSE [kind |-> "default", path |-> "none"]
    ELSE LET path == IF is_devanagari(text) THEN DevanagariCandidates(fn)[1]
                     ELSE LatinCandidates(fn)[1]
         IN  IF path \in installed THEN [kind |-> "truetype", path |-> path]
             ELSE [kind |-> "raised", path |-> "none"]

\* draw_caption asks for the font of a caption text
GetFont ==
    /\ pc = "idle"
    /\ \E fn \in FontCalls, text \in FontTexts, installed \in SUBSET FontFiles :
          /\ call' = fn
          /\ font_query' = [fn |-> fn, text |-> text, installed |-> installed]
          /\ font' = get_font(fn, text, installed)
          /\ result' = IF get_font(fn, text, installed).kind = "raised"
                       THEN "raised" ELSE "returned"
    /\ pc' = "done"
    /\ UNCHANGED words
    /\ UNCHANGED <<otherVars, frameVars, clipVars, convVars, cacheVars>>
    /\ UNCHANGED fontOthers

-----------------------------------------------------------------------------
(* caption_video.py: transcribe; transcribe.py: transcribe_with_word_timestamps;
   build_rashifal_video.py: get_timestamps. Times are seconds, kept as fractions
   [num, den] in lowest terms *)

ListenCalls == {"caption_video.transcribe", "transcribe.transcribe_with_word_timestamps",
                "build_rashifal_video.get_timestamps"}

TICKS_PER_SECOND == 10000000

RECURSIVE GCD(_, _)
GCD(a, b) == IF b = 0 THEN a ELSE GCD(b, a % b)

\* the fraction n / d in lowest terms (d > 0)
Fraction(n, d) == [num |-> n \div GCD(n, d), den |-> d \div GCD(n, d)]

\* ticks / 10_000_000
Seconds(ticks) == Fraction(ticks, TICKS_PER_SECOND)

\* round(ticks / 10_000_000, 3)
SecondsRounded(ticks) == Fraction(RoundDiv(ticks, TICKS_PER_SECOND \div 1000), 1000)

\* d.get(key, default)
get(d, key, default) == IF key \in DOMAIN d THEN d[key] ELSE default

\* the tokens on_result appends for a "Words" list
tokens_of(items) ==
    [ k \in DOMAIN items |->
        [ word  |-> items[k].Word,
          start |-> Seconds(items[k].Offset),
          end   |-> Seconds(items[k].Offset + items[k].Duration) ] ]

\* the tokens on_recognized appends for a "Words" list
tokens_rounded(items) ==
    [ k \in DOMAIN items |->
        [ word  |-> items[k].Word,
          start |-> SecondsRounded(items[k].Offset),
          end   |-> SecondsRounded(items[k].Offset + items[k].Duration) ] ]

\* an on_result that keeps only the tokens of the last event
on_result_overwrite(ws, evt) ==
    IF evt.reason # "RecognizedSpeech" THEN [words |-> ws, raised |-> <<>>]
    ELSE LET nbest == get(evt.json, "NBest", <<EmptyDict>>)
         IN  IF Len(nbest) = 0 THEN [words |-> ws, raised |-> <<"IndexError">>]
             ELSE [words |-> tokens_of(get(nbest[1], "Words", <<>>)), raised |-> <<>>]

\* on_result(evt) of transcribe and of transcribe_with_word_timestamps:
\* detail.get("NBest", [{}])[0].get("Words", []); the [0] of an empty list raises
on_result(ws, evt) ==
    IF evt.reason # "RecognizedSpeech" THEN [words |-> ws, raised |-> <<>>]
    ELSE LET nbest == get(evt.json, "NBest", <<EmptyDict>>)
         IN  IF Len(nbest) = 0 THEN [words |-> ws, raised |-> <<"IndexError">>]
             ELSE [words |-> ws \o tokens_of(get(nbest[1], "Words", <<>>)), raised |-> <<>>]

\* on_recognized(evt) of get_timestamps: guarded by "if nbest:", times rounded
on_recognized(ws, evt) ==
    IF evt.reason # "RecognizedSpeech" THEN [words |-> ws, raised |-> <<>>]
    ELSE LET nbest == get(evt.json, "NBest", <<>>)
         IN  IF Len(nbest) = 0 THEN [words |-> ws, raised |-> <<>>]
             ELSE [words |-> ws \o tokens_rounded(get(nbest[1], "Words", <<>>)),
                   raised |-> <<>>]

\* the callback connected to the recognized signal
recognized_callback(fn, ws, evt) ==
    IF fn = "build_rashifal_video.get_timestamps" THEN on_recognized(ws, evt)
    ELSE on_result(ws, evt)

\* the entry point up to start_continuous_recognition(): words, done = [], False
StartRecognition ==
    /\ pc = "idle"
    /\ \E fn \in ListenCalls, script \in EventScripts :
          /\ call' = fn
          /\ events' = script
    /\ pc' = "polling"
    /\ words' = <<>>
    /\ done' = FALSE
    /\ delivered' = <<>>
    /\ callback_errors' = <<>>
    /\ transcript' = <<>>
    /\ result' = "none"
    /\ UNCHANGED <<otherVars, frameVars, clipVars, convVars, cacheVars>>
    /\ UNCHANGED listenOthers

\* the recognizer's thread delivers a recognized event to the callback; an exception
\* of the callback ends the callback, not the session
OnRecognized ==
    /\ call \in ListenCalls
    /\ events # <<>>
    /\ Head(events).type = "recognized"
    /\ LET r == recognized_callback(call, words, Head(events))
       IN  /\ words' = r.words
           /\ callback_errors' = callback_errors \o r.raised
    /\ delivered' = Append(delivered, Head(events))
    /\ events' = Tail(events)
    /\ UNCHANGED <<pc, call, result, done, transcript>>
    /\ UNCHANGED <<otherVars, frameVars, clipVars, convVars, cacheVars>>
    /\ UNCHANGED listenOthers

\* the recognizer's thread delivers session_stopped or canceled: on_stopped
OnStopped ==
    /\ call \in ListenCalls
    /\ events # <<>>
    /\ Head(events).type \in {"session_stopped", "canceled"}
    /\ done' = TRUE
    /\ delivered' = Append(delivered, Head(events))
    /\ events' = Tail(events)
    /\ UNCHANGED <<pc, call, words, result, callback_errors, transcript>>
    /\ UNCHANGED <<otherVars, frameVars, clipVars, convVars, cacheVars>>
    /\ UNCHANGED listenOthers

\* what "while not done" reads
loop_exits(flag) == flag

\* "while not done:" finds done set and leaves the loop (an iteration that finds it
\* unset changes nothing)
PollExit ==
    /\ call \in ListenCalls
    /\ pc = "polling"
    /\ loop_exits(done)
    /\ pc' = "stopping"
    /\ UNCHANGED <<call, words, result>>
    /\ UNCHANGED listenVars
    /\ UNCHANGED <<otherVars, frameVars, clipVars, convVars, cacheVars>>
    /\ UNCHANGED listenOthers

\* stop_continuous_recognition(); return words
StopAndReturn ==
    /\ call \in ListenCalls
    /\ pc = "stopping"
    /\ pc' = "done"
    /\ transcript' = words
    /\ result' = "returned"
    /\ UNCHANGED <<call, words, events, delivered, done, callback_errors>>
    /\ UNCHANGED <<otherVars, frameVars, clipVars, convVars, cacheVars>>
    /\ UNCHANGED listenOthers

-----------------------------------------------------------------------------
(* app.py: convert_words; caption_video.py, transcribe.py: to_hinglish *)

ConvCalls == {"convert_words", "caption_video.to_hinglish", "transcribe.to_hinglish"}

\* a conversion that does not pad a short result
PadTruncateNoPad(res, batch) ==
    SubSeq(res, 1, IF Len(res) < Len(batch) THEN Len(res) ELSE Len(batch))

\* if len(result) < len(batch): result += batch[len(result):]
\* ... result[:len(batch)]
PadTruncate(res, batch) ==
    LET padded == IF Len(res) < Len(batch)
                  THEN res \o SubSeq(batch, Len(res) + 1, Len(batch))
                  ELSE res
    IN  SubSeq(padded, 1, Len(batch))

\* the length of one batch: words[i:i + batch_size]; transcribe.to_hinglish sends the
\* whole list in one request
BatchLen(fn, ws) == IF fn = "transcribe.to_hinglish" THEN Len(ws) ELSE batch_size

\* the batch of the next request: [w["word"] for w in words[i:i + batch_size]]
NextBatch(fn, ws, sofar) ==
    LET i == Len(sofar) + 1
        j == IF i + BatchLen(fn, ws) - 1 < Len(ws) THEN i + BatchLen(fn, ws) - 1 ELSE Len(ws)
    IN  [ k \in 1..(j - i + 1) |-> ws[i + k - 1].word ]

\* whether another request follows: "for i in range(0, len(words), batch_size)";
\* transcribe.to_hinglish makes exactly one request, also for an empty list
MoreBatches ==
    IF call = "transcribe.to_hinglish" THEN gpt_results = <<>>
    ELSE Len(gpt_results) * batch_size < Len(words)


\* convert_words(words, mode) / to_hinglish(words) is called; convert_words returns
\* the list itself for mode "Hindi"
ConvertCall ==
    /\ pc = "idle"
    /\ \E fn \in ConvCalls, ws \in ConvTokenLists, m \in {"Hindi", "Hinglish", "English"} :
          /\ fn # "convert_words" => m = "Hinglish"
          /\ call' = fn
          /\ words' = ws
          /\ mode' = m
          /\ IF m = "Hindi"
             THEN pc' = "done" /\ result' = "returned" /\ returned' = ws
             ELSE pc' = "converting" /\ result' = "none" /\ returned' = <<>>
    /\ gpt_results' = <<>>
    /\ converted' = <<>>
    /\ UNCHANGED otherVars
    /\ UNCHANGED frameVars
    /\ UNCHANGED clipVars
    /\ UNCHANGED cacheVars
    /\ UNCHANGED extraVars

\* one pass of the batch loop: the request, the response's "words", pad and truncate
ConvertBatch ==
    /\ pc = "converting"
    /\ MoreBatches
    /\ \E res \in GptResults :
          /\ gpt_results' = Append(gpt_results, res)
          /\ converted' = converted \o PadTruncate(res, NextBatch(call, words, converted))
    /\ UNCHANGED <<pc, call, words, mode, result, returned>>
    /\ UNCHANGED otherVars
    /\ UNCHANGED frameVars
    /\ UNCHANGED clipVars
    /\ UNCHANGED cacheVars
    /\ UNCHANGED extraVars

\* return [{"word": converted[i], "start": w["start"], "end": w["end"]}
\*         for i, w in enumerate(words)]: IndexError when converted is too short
ConvertReturn ==
    /\ pc = "converting"
    /\ ~MoreBatches
    /\ IF Len(converted) < Len(words)
       THEN result' = "raised" /\ returned' = <<>>
       ELSE /\ result' = "returned"
            /\ returned' = [ i \in DOMAIN words |->
                               [ word  |-> converted[i],
                                 start |-> words[i].start,
                                 end   |-> words[i].end ] ]
    /\ pc' = "done"
    /\ UNCHANGED <<call, words, mode, gpt_results, converted>>
    /\ UNCHANGED otherVars
    /\ UNCHANGED frameVars
    /\ UNCHANGED clipVars
    /\ UNCHANGED cacheVars
    /\ UNCHANGED extraVars

-----------------------------------------------------------------------------
(* app.py: the transcription cache and the "Transcribe & Generate Captions" handler *)

Modes == {"Hindi", "Hinglish", "English"}

\* hashlib.sha256 over a content: a value that stands for the digest of exactly
\* that content (collisions are not modelled)
Digest(bytes) == <<"sha256", bytes>>

\* a key made from the path instead of the content
hash_file_by_name(path) == Digest(path)

\* hash_file(path): the digest of the bytes read from the file
hash_file(path) == Digest(files[path])

\* json.dumps(x, ensure_ascii=False) and json.loads: the text of a token list
json_dumps(x) == [json |-> x]
json_loads(text) == text.json

\* get_cached(file_hash): <<>> is None
get_cached(h) ==
    IF h \in DOMAIN db
    THEN << [ Hindi    |-> json_loads(db[h].hindi),
              Hinglish |-> json_loads(db[h].hinglish),
              English  |-> json_loads(db[h].english) ] >>
    ELSE <<>>

\* save_cache(file_hash, filename, data): INSERT OR REPLACE
save_cache(h, name, data) ==
    (h :> [ filename |-> name,
            hindi    |-> json_dumps(data["Hindi"]),
            hinglish |-> json_dumps(data["Hinglish"]),
            english  |-> json_dumps(data["English"]) ]) @@ db

\* save_edits(file_hash, mode, words): UPDATE ... WHERE file_hash = ?
save_edits(h, m, ws) ==
    IF h \notin DOMAIN db THEN db
    ELSE IF m = "Hindi" THEN [db EXCEPT ![h].hindi = json_dumps(ws)]
    ELSE IF m = "Hinglish" THEN [db EXCEPT ![h].hinglish = json_dumps(ws)]
    ELSE [db EXCEPT ![h].english = json_dumps(ws)]

\* convert_words(words, mode) on a list of one batch at most, res the "words" of the
\* GPT response
convert_words(ws, m, res) ==
    IF m = "Hindi" THEN ws
    ELSE LET batch == [ i \in DOMAIN ws |-> ws[i].word ]
             conv  == IF ws = <<>> THEN <<>> ELSE PadTruncate(res, batch)
         IN  [ i \in DOMAIN ws |->
                 [word |-> conv[i], start |-> ws[i].start, end |-> ws[i].end] ]

renderVars == <<pc, call, words, result>>

\* the uploader holds a file: it is written to tmpdir under its name
Upload ==
    /\ \E n \in FileNames, y \in FileBytes :
          /\ files' = (n :> y) @@ files
          /\ video_path' = n
          /\ filename' = n
    /\ message' = "none"
    /\ UNCHANGED <<db, all_words, file_hash, api_calls, edits, saved_bytes>>
    /\ UNCHANGED <<renderVars, otherVars, frameVars, clipVars, convVars>>
    /\ UNCHANGED extraVars

\* a new browser session: empty session state and a new tmpdir, the same captions.db
NewSession ==
    /\ video_path # "none"
    /\ files' = <<>>
    /\ video_path' = "none"
    /\ filename' = "none"
    /\ all_words' = <<>>
    /\ file_hash' = <<>>
    /\ message' = "none"
    /\ UNCHANGED <<db, api_calls, edits, saved_bytes>>
    /\ UNCHANGED <<renderVars, otherVars, frameVars, clipVars, convVars>>
    /\ UNCHANGED extraVars

\* the button "Transcribe & Generate Captions"
Transcribe ==
    /\ video_path # "none"
    /\ LET h      == hash_file(video_path)
           cached == get_cached(h)
       IN  /\ file_hash' = h
           /\ IF cached # <<>>
              THEN /\ message' = "Loaded from cache - no API calls made."
                   /\ all_words' = cached[1]
                   /\ UNCHANGED <<db, api_calls, saved_bytes>>
              ELSE \E hindi_words \in HindiLists, r1 \in CacheGptResults,
                      r2 \in CacheGptResults :
                     LET all == [ Hindi    |-> hindi_words,
                                  Hinglish |-> convert_words(hindi_words, "Hinglish", r1),
                                  English  |-> convert_words(hindi_words, "English", r2) ]
                     IN  /\ api_calls' = [ extract_audio |-> api_calls.extract_audio + 1,
                                           transcribe    |-> api_calls.transcribe + 1,
                                           convert_words |-> api_calls.convert_words + 2 ]
                         /\ db' = save_cache(h, filename, all)
                         /\ saved_bytes' = saved_bytes \cup {files[video_path]}
                         /\ all_words' = all
                         /\ message' = "Transcription complete and saved to cache."
    /\ UNCHANGED <<files, video_path, filename, edits>>
    /\ UNCHANGED <<renderVars, otherVars, frameVars, clipVars, convVars>>
    /\ UNCHANGED extraVars

\* the button "Save Edits" for the caption mode shown
SaveEdits ==
    /\ all_words # <<>>
    /\ edits < MaxEdits
    /\ \E m \in Modes, edited \in EditedLists :
          /\ db' = save_edits(file_hash, m, edited)
          /\ all_words' = [all_words EXCEPT ![m] = edited]
          /\ message' = "edits saved."
    /\ edits' = edits + 1
    /\ UNCHANGED <<files, video_path, filename, file_hash, api_calls, saved_bytes>>
    /\ UNCHANGED <<renderVars, otherVars, frameVars, clipVars, convVars>>
    /\ UNCHANGED extraVars

\* the button "Burn Captions into Video": add_captions(video_path, edited,
\* captioned_path) writes captioned.mp4 into tmpdir
BurnCaptions ==
    /\ all_words # <<>>
    /\ files' = ("captioned.mp4" :> "captioned") @@ files
    /\ message' = "Done!"
    /\ UNCHANGED <<video_path, filename, db, all_words, file_hash, api_calls, edits,
                   saved_bytes>>
    /\ UNCHANGED <<renderVars, otherVars, frameVars, clipVars, convVars>>
    /\ UNCHANGED extraVars

-----------------------------------------------------------------------------
(* rashifal_app.py: the four steps of the dashboard. A text is named by its date and
   the number of its generation; an audio by the text it was spoken from; a duration
   by the audio it measures; timestamps by the audio they were recognized from. The
   two parts of a date are written together by every handler and are kept as one *)

\* None of Python, NULL of the database, a missing file
None == [date |-> "none", ver |-> 0]

\* db_load_session(date_str) and db_load_timestamps(date_str, part): a missing row
\* loads as None
db_load_session(d) == sessions[d]
db_load_timestamps(d) == timestamps[d]

\* "Auto-load from DB when date changes": the session after the script ran with
\* date d selected
auto_load(ss, d) ==
    IF ss.loaded_date # d
    THEN [ text        |-> db_load_session(d).text,
           dur         |-> db_load_session(d).dur,
           words       |-> db_load_timestamps(d),
           loaded_date |-> d ]
    ELSE ss

text_ready == session_state.text # None
audio_ready == session_state.dur # None
timestamps_ready == session_state.words # None

InitRashifal ==
    /\ date_str = "2026-03-01"
    /\ session_state = [text |-> None, dur |-> None, words |-> None,
                        loaded_date |-> "2026-03-01"]
    /\ sessions = [d \in Dates |-> [text |-> None, dur |-> None]]
    /\ timestamps = [d \in Dates |-> None]
    /\ wav = None
    /\ generated = 0
    /\ last_build = <<>>

rashifalRest == <<renderVars, otherVars, frameVars, clipVars, convVars, cacheVars>>

\* another date is picked in the sidebar: the script runs again and loads it
SelectDate ==
    /\ \E d \in Dates \ {date_str} :
          /\ date_str' = d
          /\ session_state' = auto_load(session_state, d)
    /\ UNCHANGED <<sessions, timestamps, wav, generated, last_build>>
    /\ UNCHANGED rashifalRest
    /\ UNCHANGED rashifalOthers

\* "Generate Text": the session gets the new text and loses durations and words;
\* db_save_session(date_str, text_p1=p1, text_p2=p2) writes the text columns only
GenerateText ==
    /\ generated < MaxTexts
    /\ LET p == [date |-> date_str, ver |-> generated + 1]
       IN  /\ session_state' = [session_state EXCEPT !.text = p, !.dur = None,
                                                     !.words = None]
           /\ sessions' = [sessions EXCEPT ![date_str].text = p]
    /\ generated' = generated + 1
    /\ UNCHANGED <<date_str, timestamps, wav, last_build>>
    /\ UNCHANGED rashifalRest
    /\ UNCHANGED rashifalOthers

\* "Generate Audio": generate_tts writes the session's text to WAV1 and WAV2; the
\* session gets the durations and loses the words;
\* db_save_session(date_str, dur1=dur1, dur2=dur2) writes the duration columns only
GenerateAudio ==
    /\ text_ready
    /\ wav' = session_state.text
    /\ session_state' = [session_state EXCEPT !.dur = session_state.text, !.words = None]
    /\ sessions' = [sessions EXCEPT ![date_str].dur = session_state.text]
    /\ UNCHANGED <<date_str, timestamps, generated, last_build>>
    /\ UNCHANGED rashifalRest
    /\ UNCHANGED rashifalOthers

\* "Generate Timestamps": get_timestamps_fn reads WAV1 and WAV2; the words go to the
\* session and, by db_save_timestamps, to the rows of the selected date
GenerateTimestamps ==
    /\ audio_ready
    /\ wav # None
    /\ session_state' = [session_state EXCEPT !.words = wav]
    /\ timestamps' = [timestamps EXCEPT ![date_str] = wav]
    /\ UNCHANGED <<date_str, sessions, wav, generated, last_build>>
    /\ UNCHANGED rashifalRest
    /\ UNCHANGED rashifalOthers

\* "Build Videos": build_video_fn(PART1_NAMES, words1, WAV1, dur1, OUT1), and the
\* same for part 2
BuildVideos ==
    /\ timestamps_ready
    /\ last_build' = << [ date  |-> date_str,
                          text  |-> session_state.text,
                          words |-> session_state.words,
                          dur   |-> session_state.dur,
                          wav   |-> wav ] >>
    /\ UNCHANGED <<date_str, session_state, sessions, timestamps, wav, generated>>
    /\ UNCHANGED rashifalRest
    /\ UNCHANGED rashifalOthers

-----------------------------------------------------------------------------
(* Specifications *)

Init ==
    /\ pc = "idle"
    /\ call = "none"
    /\ handler = "off"
    /\ names = <<>>
    /\ words = <<>>
    /\ total_dur = 0
    /\ clip = NoClip
    /\ boundaries = <<>>
    /\ segments = <<>>
    /\ audio_clip = <<>>
    /\ final = NoClip
    /\ out_file = "absent"
    /\ out1 = "absent"
    /\ result = "none"
    /\ console = {}
    /\ progress_callback = FALSE
    /\ total_frames = 0
    /\ frame_count = 0
    /\ reports = <<>>
    /\ emitted = 0
    /\ frame = NoFrame
    /\ open_clips = {}
    /\ closed = {}
    /\ mode = "none"
    /\ gpt_results = <<>>
    /\ converted = <<>>
    /\ returned = <<>>
    /\ files = <<>>
    /\ video_path = "none"
    /\ filename = "none"
    /\ db = <<>>
    /\ all_words = <<>>
    /\ file_hash = <<>>
    /\ api_calls = [extract_audio |-> 0, transcribe |-> 0, convert_words |-> 0]
    /\ message = "none"
    /\ edits = 0
    /\ saved_bytes = {}
    /\ scenes = <<>>
    /\ font_query = <<>>
    /\ font = <<>>
    /\ events = <<>> /\ delivered = <<>> /\ done = FALSE
    /\ callback_errors = <<>> /\ transcript = <<>>
    /\ InitRashifal

Next ==
    \/ BuildVideo
    \/ WriteVideo
    \/ WriteVideoRaises

Spec == Init /\ [][Next]_vars

NextEncode ==
    \/ AddCaptions
    \/ AddEffects
    \/ BuildVideoFrames
    \/ BuildVideoOpenRaises
    \/ SceneBuildVideo
    \/ CaptionMakeFrame
    \/ EffectMakeFrame
    \/ SegmentMakeFrame
    \/ SceneMakeFrame
    \/ WriteVideo
    \/ WriteVideoRaises

SpecEncode == Init /\ [][NextEncode]_vars

NextFont ==
    \/ GetFont

SpecFont == Init /\ [][NextFont]_vars

NextListen ==
    \/ StartRecognition
    \/ OnRecognized
    \/ OnStopped
    \/ PollExit
    \/ StopAndReturn

\* the polling thread is always scheduled again: a loop that can leave does leave,
\* and the statements after it run
SpecListen ==
    Init /\ [][NextListen]_vars /\ WF_vars(PollExit) /\ WF_vars(StopAndReturn)

NextRashifal ==
    \/ SelectDate
    \/ GenerateText
    \/ GenerateAudio
    \/ GenerateTimestamps
    \/ BuildVideos

SpecRashifal == Init /\ [][NextRashifal]_vars

NextConvert ==
    \/ ConvertCall
    \/ ConvertBatch
    \/ ConvertReturn

SpecConvert == Init /\ [][NextConvert]_vars

NextCache ==
    \/ Upload
    \/ NewSession
    \/ Transcribe
    \/ SaveEdits
    \/ BurnCaptions

SpecCache == Init /\ [][NextCache]_vars

\* the button was clicked with timestamps_ready
InitHandler ==
    /\ handler = "part1"
    /\ pc = "idle" /\ call = "none" /\ names = <<>> /\ words = <<>> /\ total_dur = 0
    /\ clip = NoClip
    /\ boundaries = <<>> /\ segments = <<>> /\ audio_clip = <<>> /\ final = NoClip
    /\ out_file = "absent" /\ out1 = "absent" /\ result = "none" /\ console = {}
    /\ progress_callback = FALSE /\ total_frames = 0 /\ frame_count = 0
    /\ reports = <<>> /\ emitted = 0 /\ frame = NoFrame
    /\ open_clips = {} /\ closed = {}
    /\ mode = "none" /\ gpt_results = <<>> /\ converted = <<>> /\ returned = <<>>
    /\ files = <<>> /\ video_path = "none" /\ filename = "none" /\ db = <<>>
    /\ all_words = <<>> /\ file_hash = <<>>
    /\ api_calls = [extract_audio |-> 0, transcribe |-> 0, convert_words |-> 0]
    /\ message = "none" /\ edits = 0 /\ saved_bytes = {}
    /\ scenes = <<>> /\ font_query = <<>> /\ font = <<>>
    /\ events = <<>> /\ delivered = <<>> /\ done = FALSE
    /\ callback_errors = <<>> /\ transcript = <<>>
    /\ InitRashifal

NextHandler ==
    \/ HandlerBuildVideo
    \/ WriteVideo
    \/ WriteVideoRaises
    \/ HandlerReturn

SpecHandler == InitHandler /\ [][NextHandler]_vars

-----------------------------------------------------------------------------
(* Properties of build_video (Spec) *)

Min(S) == CHOOSE x \in S : \A y \in S : x <= y

CeilDiv(x, y) == (x + y - 1) \div y

Built == call = "build_video" /\ pc # "idle"

SegmentNames == [ k \in DOMAIN segments |-> segments[k].name ]

\* positions of the token list whose text resolves to name n
Occurrences(n) == { i \in DOMAIN words : Resolve(words[i].word) = n }

\* C2: every requested name some token resolves to has one boundary, the start of the
\* first such token in list order; a name no token resolves to has none; the terminal
\* entry is total_dur - 0.1 s
C2_FirstOccurrenceWins ==
    Built =>
        /\ boundaries["_end"] = total_dur - 100
        /\ \A n \in Range(names) :
              IF Occurrences(n) = {}
              THEN n \notin DOMAIN boundaries
              ELSE /\ n \in DOMAIN boundaries
                   /\ boundaries[n] = words[Min(Occurrences(n))].start

\* the example of the claim: A@1.0, B@3.0, A@5.0, total 10.0 (B through its alias)
C2_Witness ==
    /\ Built
    /\ words = << [word |-> "Mesh", start |-> 1000, end |-> 1200],
                  [word |-> "leo",  start |-> 3000, end |-> 3200],
                  [word |-> "Mesh", start |-> 5000, end |-> 5200] >>
    /\ total_dur = 10000
    /\ boundaries = ("Mesh" :> 1000) @@ ("Leo" :> 3000) @@ ("_end" :> 9900)

\* C3: a segment of positive duration d over a clip of length c is looped at least
\* ceil(d / c) times, the loop is at least d long, and the trimmed loop is exactly d long
C3_LoopCovers ==
    \A k \in DOMAIN segments :
        LET s == segments[k]
        IN  (s.duration > 0 /\ s.clip_dur > 0) =>
                /\ s.reps >= CeilDiv(s.duration, s.clip_dur)
                /\ s.reps * s.clip_dur >= s.duration
                /\ s.looped = s.duration

\* a 2.0 s segment over a 1.5 s clip has been looped and written
C3_Witness ==
    /\ Built /\ out_file = "complete"
    /\ \E k \in DOMAIN segments :
          /\ segments[k].duration = 2000
          /\ segments[k].clip_dur = 1500
          /\ segments[k].reps >= 2

\* C8: no segment of non-positive duration is looped, trimmed or concatenated
C8_NonPositiveDropped ==
    \A k \in DOMAIN segments : segments[k].duration > 0

\* C9 as stated: the attached tokens are the tokens whose whole interval lies in
\* [seg_start, seg_end)
C9_WholeIntervalAttached ==
    \A k \in DOMAIN segments :
        LET s == segments[k]
        IN  /\ \A i \in DOMAIN words :
                  (words[i] \in Range(s.seg_words))
                      <=> (s.seg_start <= words[i].start /\ words[i].end < s.seg_end)
            /\ \A w \in Range(s.seg_words) : w.end <= s.seg_end

\* C9 amended: the attached tokens are the tokens whose start lies in
\* [seg_start, seg_end), each as often as the token list holds it
C9_AttachedByStart ==
    \A k \in DOMAIN segments :
        LET s == segments[k]
            InSeg(w) == s.seg_start <= w.start /\ w.start < s.seg_end
        IN  /\ \A i \in DOMAIN words : (words[i] \in Range(s.seg_words)) <=> InSeg(words[i])
            /\ Len(s.seg_words) = Cardinality({ i \in DOMAIN words : InSeg(words[i]) })

\* a token attached to a segment of positive duration ends after the segment does
C9_Witness ==
    /\ Built
    /\ \E k \in DOMAIN segments :
          /\ segments[k].duration > 0
          /\ \E w \in Range(segments[k].seg_words) : w.end > segments[k].seg_end

\* C10: the segments handed to concatenation are the resolved names in the order of
\* the requested name list
C10_CanonicalOrder ==
    Built => SegmentNames = SelectSeq(names, LAMBDA n : n \in DOMAIN boundaries)

\* a written timeline whose names were detected in another order than requested
C10_Witness ==
    /\ Built /\ out_file = "complete"
    /\ \E k \in DOMAIN segments :
          /\ k + 1 \in DOMAIN segments
          /\ segments[k].seg_start > segments[k + 1].seg_start

\* positions of the requested list after i whose name has a boundary
LaterResolved(i) == { j \in DOMAIN names : j > i /\ names[j] \in DOMAIN boundaries }

\* C23: every resolved name of the requested list has a segment that starts at its
\* boundary and ends at the boundary of the nearest later resolved name of the list,
\* or at the terminal entry when there is none; its duration is end - start
C23_SegmentExtent ==
    Built =>
        /\ \A i \in DOMAIN names :
              names[i] \in DOMAIN boundaries => \E k \in DOMAIN segments : segments[k].name = names[i]
        /\ \A k \in DOMAIN segments :
              \E i \in DOMAIN names :
                  /\ names[i] = segments[k].name
                  /\ segments[k].seg_start = boundaries[names[i]]
                  /\ segments[k].seg_end =
                        IF LaterResolved(i) = {} THEN boundaries["_end"]
                        ELSE boundaries[names[Min(LaterResolved(i))]]
                  /\ segments[k].duration = segments[k].seg_end - segments[k].seg_start

\* the name after the first is absent: the first segment runs to the boundary of the
\* third name, the last one to the terminal entry
C23_Witness ==
    /\ Built /\ out_file = "complete"
    /\ names[2] \notin DOMAIN boundaries
    /\ Len(segments) = 2
    /\ segments[1].name = names[1]
    /\ segments[1].seg_end = boundaries[names[3]]
    /\ segments[1].duration > 0
    /\ segments[2].seg_end = boundaries["_end"]

\* C24: with at least one segment, the one audio track of the result is the source
\* audio from the boundary of the first resolved name of the requested list to the
\* terminal entry; the segments carry no audio of their own
C24_AudioSpan ==
    (Built /\ segments # <<>>) =>
        LET resolved == { i \in DOMAIN names : names[i] \in DOMAIN boundaries }
        IN  /\ audio_clip = <<boundaries[names[Min(resolved)]], boundaries["_end"]>>
            /\ \A k \in DOMAIN segments : "audio" \notin DOMAIN segments[k]

\* a written timeline of two segments whose audio starts after the beginning of the
\* source audio, at the first name of the list although it was said later
C24_Witness ==
    /\ Built /\ out_file = "complete"
    /\ Len(segments) >= 2
    /\ audio_clip[1] > 0
    /\ audio_clip[1] = segments[1].seg_start
    /\ audio_clip[2] = total_dur - 100

\* the durations of the first k segments, added up
RECURSIVE DurationsUpTo(_)
DurationsUpTo(k) == IF k = 0 THEN 0 ELSE segments[k].duration + DurationsUpTo(k - 1)

\* C26: with at least one segment, the durations of the segments handed to
\* concatenation add up to the length of the audio span, the terminal entry minus
\* the boundary of the first resolved name, and that is the length of the timeline
C26_LengthsAgree ==
    (Built /\ segments # <<>>) =>
        /\ DurationsUpTo(Len(segments)) = audio_clip[2] - audio_clip[1]
        /\ final.duration = audio_clip[2] - audio_clip[1]

\* a written timeline of three segments, one of them of negative duration
C26_Witness ==
    /\ Built /\ out_file = "complete"
    /\ Len(segments) = 3
    /\ \E k \in DOMAIN segments : segments[k].duration < 0
    /\ final.duration = audio_clip[2] - audio_clip[1]
    /\ final.duration > 0

\* C19: the keys of the boundary map are "_end" and the requested names some token
\* resolves to, "_end" is total_dur - 0.1 s; build_video makes one segment per
\* resolved name, none for an absent one, and with a resolved name goes on to the
\* encode
C19_MapContents ==
    Built =>
        LET resolved == { n \in Range(names) : \E i \in DOMAIN words :
                             (IF words[i].word \in DOMAIN BOUNDARY_MAP
                              THEN BOUNDARY_MAP[words[i].word]
                              ELSE words[i].word) = n }
        IN  /\ DOMAIN boundaries = resolved \cup {"_end"}
            /\ boundaries["_end"] = total_dur - 100
            /\ { segments[k].name : k \in DOMAIN segments } = resolved
            /\ Len(segments) = Cardinality(resolved)
            /\ resolved # {} => (pc = "encoding" \/ out_file # "absent")

\* two of the three requested names were said, beside another word; the video of
\* the two was written
C19_Witness ==
    /\ Built /\ out_file = "complete"
    /\ DOMAIN boundaries = {"Mesh", "Kanya", "_end"}
    /\ "Leo" \in Range(names)
    /\ \E i \in DOMAIN words : words[i].word = "aaj"
    /\ Len(segments) = 2

-----------------------------------------------------------------------------
(* Properties of the frame generators (SpecEncode) *)

Contains(w, t) == w.start <= t /\ t < w.end

\* the token list the generator of the last frame looks up, and its query time
LookupList ==
    IF frame.kind = "caption" THEN words
    ELSE (CHOOSE s \in Range(segments) : s.name = frame.name).seg_words

LookupTime ==
    IF frame.kind = "caption" THEN frame.t
    ELSE frame.t + (CHOOSE s \in Range(segments) : s.name = frame.name).seg_start

\* C1: whatever frames were requested before, the token a frame generator finds is
\* the first token of its list, in list order, that contains the query time, and
\* none when no token contains it: the answer depends on the list and the time
\* only, so a repeated query gets the same answer
C1_FirstMatchInListOrder ==
    frame.kind \in {"caption", "segment"} =>
        LET hits == { i \in DOMAIN LookupList : Contains(LookupList[i], LookupTime) }
        IN  IF hits = {} THEN frame.current = <<>>
            ELSE frame.current = <<LookupList[Min(hits)]>>

\* an unsorted list with two overlapping tokens that contain the query time, queried
\* more than once: the first in list order was returned, though it starts later
C1_Witness ==
    /\ frame.kind = "caption" /\ frame_count >= 2
    /\ Len(words) = 2
    /\ words[1].start > words[2].start
    /\ Contains(words[1], frame.t) /\ Contains(words[2], frame.t)
    /\ frame.current = <<words[1]>>

\* C4: with a callback supplied, it has been called once per frame request, every
\* value lies in [0, 1], and the values never decrease
C4_ProgressMonotone ==
    (call \in {"add_captions", "add_effects"} /\ progress_callback) =>
        /\ Len(reports) = emitted
        /\ \A i \in DOMAIN reports :
              /\ reports[i].den > 0
              /\ 0 <= reports[i].num /\ reports[i].num <= reports[i].den
        /\ \A i, j \in DOMAIN reports :
              i < j => reports[i].num * reports[j].den <= reports[j].num * reports[i].den

\* more frames were requested than frames_total
C4_Witness ==
    /\ call \in {"add_captions", "add_effects"} /\ progress_callback
    /\ total_frames > 1
    /\ Len(reports) > total_frames

\* C5 as stated: the scale is 1.0 at t = 0 and at t = segment_length
C5_BaselineAtSegmentLength ==
    (frame.kind = "effect" /\ frame.t \in {0, SEGMENT_DURATION}) =>
        frame.scale.num = frame.scale.den

\* C5 amended: the scale is 1.0 at t = 0 and at t = 2 * segment_length, and 1.08 at
\* t = segment_length
C5_BaselineEveryTwoSegments ==
    frame.kind = "effect" =>
        /\ frame.t \in {0, 2 * SEGMENT_DURATION} => frame.scale.num = frame.scale.den
        /\ frame.t = SEGMENT_DURATION => 100 * frame.scale.num = 108 * frame.scale.den

\* the frame at t = segment_length was generated
C5_Witness ==
    frame.kind = "effect" /\ frame.t = SEGMENT_DURATION

\* C6: a caption frame at a time no token contains is the decoded source frame with
\* nothing drawn; one frame is returned per request; the written clip has the fps
\* and the duration of the source
C6_PassThrough ==
    call = "add_captions" =>
        /\ emitted = frame_count
        /\ final = [fps |-> clip.fps, duration |-> clip.duration]
        /\ (frame.kind = "caption" /\ \A i \in DOMAIN words : ~Contains(words[i], frame.t))
              => (frame.drawn = <<>> /\ frame.source = frame.t)

\* the empty token list: frames were generated and the video written
C6_Witness ==
    /\ call = "add_captions" /\ words = <<>>
    /\ out_file = "complete"
    /\ frame.kind = "caption" /\ frame.drawn = <<>>
    /\ emitted >= 2

\* C14: with a callback supplied, the report of the frames_total-th frame request of
\* an encode call is exactly 1.0, and every report before it is below 1.0
C14_CompleteAtFramesTotal ==
    (call \in {"add_captions", "add_effects"} /\ progress_callback) =>
        \A i \in DOMAIN reports :
            /\ i < total_frames => reports[i].num < reports[i].den
            /\ i = total_frames => reports[i].num = reports[i].den

\* 2.5 s at 2 fps: frames_total is 5, and the fifth frame has just been requested
C14_Witness ==
    /\ call \in {"add_captions", "add_effects"} /\ progress_callback
    /\ clip.fps = 2 /\ clip.duration = 2500
    /\ total_frames = 5 /\ Len(reports) = 5
    /\ reports[5] = [num |-> 1, den |-> 1]
    /\ reports[4] = [num |-> 4, den |-> 5]

\* C15: the progress denominator of an encode call is round(fps * duration), and 1
\* when that is 0
C15_FramesTotalRounded ==
    (call \in {"add_captions", "add_effects"} /\ pc # "idle") =>
        LET n == RoundDiv(clip.fps * clip.duration, 1000)
        IN  total_frames = IF n > 1 THEN n ELSE 1

\* C16: the zoom scale of every generated frame lies in [1.0, 1.08]
C16_ZoomBounded ==
    frame.kind = "effect" =>
        /\ frame.scale.den > 0
        /\ frame.scale.den <= frame.scale.num
        /\ 100 * frame.scale.num <= 108 * frame.scale.den

\* a frame past the first segment, in a zoom-out segment: t = 3.0 s, scale 1.04
C16_Witness ==
    /\ frame.kind = "effect" /\ frame.t = 3000
    /\ 100 * frame.scale.num = 104 * frame.scale.den

\* C17: the crop rectangle of every generated frame lies inside the source frame, is
\* at least one pixel wide and high, and is centered to within one pixel
C17_CropInsideAndCentered ==
    frame.kind = "effect" =>
        LET W == clip.w
            H == clip.h
            c == frame.crop
            right  == W - (c.left + c.crop_w)
            bottom == H - (c.top + c.crop_h)
        IN  /\ 0 <= c.left /\ 0 <= c.top
            /\ c.left + c.crop_w <= W
            /\ c.top + c.crop_h <= H
            /\ c.crop_w >= 1 /\ c.crop_h >= 1
            /\ right - c.left \in {-1, 0, 1}
            /\ bottom - c.top \in {-1, 0, 1}

\* C18: however many frames were requested before, the scale of a frame is
\* 1 + 0.08 * p in an even segment and 1 + 0.08 * (1 - p) in an odd one, where the
\* segment index is floor(t / segment_length) and p = (t mod segment_length) /
\* segment_length; the crop follows from that scale and the frame size alone
C18_PhaseFromTimeOnly ==
    frame.kind = "effect" =>
        LET L   == SEGMENT_DURATION
            idx == frame.t \div L
            p   == frame.t % L
            num == IF idx % 2 = 0 THEN 100 * L + 8 * p ELSE 100 * L + 8 * (L - p)
        IN  /\ frame.scale = [num |-> num, den |-> 100 * L]
            /\ frame.crop.crop_w = (clip.w * 100 * L) \div num
            /\ frame.crop.crop_h = (clip.h * 100 * L) \div num

\* the frame at t = 1.2 s (segment 0, zoom in, scale 1.048) requested as the third
\* frame or later
C18_Witness ==
    /\ frame.kind = "effect" /\ frame.t = 1200 /\ frame_count >= 3
    /\ 1000 * frame.scale.num = 1048 * frame.scale.den

\* C21: the text burned into a frame for its active token is the token text with
\* trailing '.', ',' and danda removed, nothing else removed, and upper-cased
C21_TextNormalized ==
    (frame.kind \in {"caption", "segment", "scene"} /\ frame.drawn # <<>>) =>
        frame.drawn[1].burned =
            upper(rstrip(Spelling[frame.current[1].word], STRIP_CHARS))

\* C11: when a render call has ended (written, aborted with no segments, or ended by
\* an error while opening a clip or while encoding), every clip handle it opened
\* has been closed
C11_ClipsReleased ==
    pc = "done" => open_clips \subseteq closed

\* C12: a render call ended by an error during the encode leaves the output path
\* with a complete render or as it was before the call
C12_NoPartialOutput ==
    (pc = "done" /\ result = "raised") => out_file \in {"absent", "complete"}

-----------------------------------------------------------------------------
(* Properties of get_font (SpecFont) *)

\* C22: get_font gives the first existing font of the candidates of the text's
\* script (Devanagari when a character lies in U+0900..U+097F, Latin otherwise),
\* and fails when none of them exists
C22_ScriptFontOrFailure ==
    (call \in FontCalls /\ pc = "done") =>
        LET q     == font_query
            cands == IF \E i \in DOMAIN q.text : q.text[i] \in 2304..2431
                     THEN DevanagariCandidates(q.fn) ELSE LatinCandidates(q.fn)
            avail == { i \in DOMAIN cands : cands[i] \in q.installed }
        IN  IF avail = {}
            THEN font.kind = "raised" /\ result = "raised"
            ELSE font = [kind |-> "truetype", path |-> cands[Min(avail)]]

-----------------------------------------------------------------------------
(* Properties of the transcription entry points (SpecListen) *)

Listening == call \in ListenCalls /\ pc # "idle"

\* the "Words" entries of a recognized event; none when the reason is not recognized
\* speech, "NBest" is missing or empty, or its first entry has no "Words"
ItemsOf(e) ==
    IF e.type # "recognized" \/ e.reason # "RecognizedSpeech" THEN <<>>
    ELSE IF "NBest" \notin DOMAIN e.json THEN <<>>
    ELSE IF Len(e.json["NBest"]) = 0 THEN <<>>
    ELSE IF "Words" \notin DOMAIN e.json["NBest"][1] THEN <<>>
    ELSE e.json["NBest"][1]["Words"]

\* the "Words" entries of the first k delivered events, in arrival order
RECURSIVE ItemsDelivered(_)
ItemsDelivered(k) ==
    IF k = 0 THEN <<>> ELSE ItemsDelivered(k - 1) \o ItemsOf(delivered[k])

\* C25: no callback raises, and the token list is one token per "Words" entry of the
\* delivered events, in arrival order, with start = Offset / 10,000,000 and
\* end = (Offset + Duration) / 10,000,000 seconds (the offsets and durations of
\* WordItems are multiples of 1000 ticks, and both sides are divided by 1000)
C25_MalformedTolerated ==
    Listening =>
        LET items == ItemsDelivered(Len(delivered))
        IN  /\ callback_errors = <<>>
            /\ Len(words) = Len(items)
            /\ \A k \in DOMAIN items :
                  /\ words[k].word = items[k].Word
                  /\ words[k].start.num * 10000 =
                        (items[k].Offset \div 1000) * words[k].start.den
                  /\ words[k].end.num * 10000 =
                        ((items[k].Offset + items[k].Duration) \div 1000) * words[k].end.den

stop_delivered ==
    \E i \in DOMAIN delivered : delivered[i].type \in {"session_stopped", "canceled"}

\* C30: the entry point leaves its loop only after session_stopped or canceled was
\* delivered; what it returns is one token per "Words" entry of every recognized
\* event of the session, in arrival order; and once the flag is set it returns
C30_Completion ==
    /\ []((Listening /\ pc \in {"stopping", "done"}) => stop_delivered)
    /\ []((Listening /\ pc = "done") =>
            LET items == ItemsDelivered(Len(delivered))
            IN  /\ \A i \in DOMAIN events : events[i].type # "recognized"
                /\ Len(transcript) = Len(items)
                /\ \A k \in DOMAIN items : transcript[k].word = items[k].Word)
    /\ ((Listening /\ done) ~> (pc = "done" /\ result = "returned"))

\* two recognized events with one token each were delivered, then canceled; the
\* entry point has returned both tokens, and session_stopped is still to come
C30_Witness ==
    /\ Listening /\ pc = "done"
    /\ Len(delivered) = 3
    /\ delivered[3].type = "canceled"
    /\ Len(events) = 1
    /\ Len(transcript) = 2
    /\ transcript[1].word # transcript[2].word

-----------------------------------------------------------------------------
(* Properties of the rashifal dashboard (SpecRashifal) *)

\* made from a text of date d that is older than the text x
FromEarlierText(v, d, x) == v # None /\ v.date = d /\ v.ver < x.ver

\* C27: while "Build Videos" is enabled for the selected date, neither the durations
\* nor the words of the session come from a text of that date older than its
\* current text
C27_NoStaleAfterGenerateText ==
    (timestamps_ready /\ text_ready) =>
        /\ ~FromEarlierText(session_state.words, date_str, session_state.text)
        /\ ~FromEarlierText(session_state.dur, date_str, session_state.text)

\* C28: whenever "Build Videos" has run, the audio in WAV1 and WAV2 was the audio
\* the words and the durations handed to build_video were made from
C28_AudioMatchesTimestamps ==
    last_build # <<>> =>
        /\ last_build[1].wav = last_build[1].words
        /\ last_build[1].wav = last_build[1].dur

-----------------------------------------------------------------------------
(* Properties of the conversions (SpecConvert) *)

\* the request that covers position i of the list, and i's place in its batch
BatchOf(i) == ((i - 1) \div BatchLen(call, words)) + 1
PlaceOf(i) == ((i - 1) % BatchLen(call, words)) + 1

\* C13: whatever the length of each response, a conversion returns a list as long
\* as its input; item i carries start and end of input item i; its word is the
\* response's word for that place, or the original word where the response was
\* too short to cover the place
C13_LengthPreserved ==
    (call \in ConvCalls /\ pc = "done") =>
        /\ result = "returned"
        /\ Len(returned) = Len(words)
        /\ \A i \in DOMAIN words :
              /\ returned[i].start = words[i].start
              /\ returned[i].end = words[i].end
              /\ returned[i].word =
                    IF mode = "Hindi" THEN words[i].word
                    ELSE IF PlaceOf(i) > Len(gpt_results[BatchOf(i)]) THEN words[i].word
                    ELSE gpt_results[BatchOf(i)][PlaceOf(i)]

\* a list of two batches was converted: the first response was too short, the second
\* too long
C13_Witness ==
    /\ call = "convert_words" /\ pc = "done" /\ result = "returned"
    /\ Len(words) = 3 /\ Len(gpt_results) = 2
    /\ Len(gpt_results[1]) = 1
    /\ Len(gpt_results[2]) = 2
    /\ returned[2].word = words[2].word
    /\ returned[3].word = "g1"

-----------------------------------------------------------------------------
(* Properties of the transcription cache (SpecCache) *)

\* C20: a "Transcribe" of a file whose bytes token lists were saved for, whatever its
\* name, makes no extraction, transcription or conversion call, leaves the table as
\* it is, and puts the token lists stored for those bytes into the session
C20_CacheHitByContent ==
    [][ (Transcribe /\ files[video_path] \in saved_bytes) =>
            /\ api_calls' = api_calls
            /\ db' = db
            /\ Digest(files[video_path]) \in DOMAIN db
            /\ all_words' = [ Hindi    |-> db[Digest(files[video_path])].hindi.json,
                              Hinglish |-> db[Digest(files[video_path])].hinglish.json,
                              English  |-> db[Digest(files[video_path])].english.json ]
      ]_vars

\* the lists were saved for an upload named a.mp4 and edited; the same bytes came
\* again as b.mp4 and were loaded from the cache, after one transcription in all
C20_Witness ==
    /\ message = "Loaded from cache - no API calls made."
    /\ filename = "b.mp4"
    /\ file_hash \in DOMAIN db /\ db[file_hash].filename = "a.mp4"
    /\ api_calls = [extract_audio |-> 1, transcribe |-> 1, convert_words |-> 2]
    /\ edits = 1
    /\ \E m \in Modes : all_words[m] \in EditedLists

\* C29: when "Save Edits" or "Burn Captions" has run, the file_hash of the session,
\* set together with its token lists, is the digest of the video stored as
\* video_path
C29_ListsOfCurrentVideo ==
    (message \in {"edits saved.", "Done!"}) => file_hash = Digest(files[video_path])

-----------------------------------------------------------------------------
(* Properties of the handler (SpecHandler) *)

\* C7: a build_video call that detects no segment writes no file, and the handler
\* does not go on to report the videos as built
C7_NoSegmentsIsFailure ==
    /\ (Built /\ pc = "done" /\ segments = <<>>) => out_file = "absent"
    /\ ("ERROR: no segments detected, aborting." \in console) => handler # "success"

=============================================================================
